---- MODULE Spec2Model ----
(***************************************************************************)
(* The relational-database access layer of web2-sdk/authjs:                *)
(*   src/src/drivers/database/providers/postgres.ts  (class Postgres)      *)
(*   src/src/lib/async-retry.ts                      (asyncRetry)          *)
(*                                                                         *)
(* The driver runs on a single-threaded event loop.  A call runs           *)
(* synchronously up to its next `await`; a settled promise queues the      *)
(* awaiting call on the microtask queue (mq), which is served first-in     *)
(* first-out; network replies and timers are delivered only when mq is     *)
(* empty.  The pool object (pg.Pool, max: 1) is modelled by what its       *)
(* connect / release / end primitives do.                                  *)
(***************************************************************************)
EXTENDS Integers, Sequences, FiniteSets, TLC

\* ------------------------------------------------------------------ bounds
NumCallers == 2
MaxCalls == 3
MaxStmts == 1
MaxTicks == 2
TickMs == 3000
MaxRetries == 3
MaxOpened == 100

Callers == 1..NumCallers

\* `null` of a DBCache field, and "no caller" / "no pool"
Null == -1

\* ------------------------------------------------------- program constants
openedConnectionsMaxAge == 5000

\* what the server answers to the introspection queries
ServerLimits == [maxConnections |-> 100, reservedConnections |-> 5]
OpenedValues == {76, 90}

VARIABLES
  cache,   \* Postgres.#cache: pool handle and the cached server facts
  pools,   \* every Pool object constructed so far, by identity 1..Len(pools)
  call,    \* per caller: the position and locals of its call in flight
  mq,      \* microtask queue: calls whose awaited promise has settled
  now,     \* wall clock, in ms
  calls,   \* number of calls started so far
  rt,      \* asyncRetry run on its own (specification RetrySpec)
  seen,    \* what a mock server has seen: when it last answered the count
  pr       \* the pressure decision on its own (specification PressureSpec)

vars == <<cache, pools, call, mq, now, calls, rt, seen, pr>>

Min(a, b) == IF a < b THEN a ELSE b

\* ------------------------------------------------------------------ errors
\* Values and errors share one shape: what it says, the driver's code (0: none),
\* the Exception's status (0: none) and its context ("": none).
Value(m) == [msg |-> m, code |-> 0, status |-> 0, context |-> ""]

NoValue == Value("")

\* An error thrown by the driver or by the caller's callback.
DriverError(m) == [msg |-> m, code |-> 0, status |-> 0, context |-> ""]

\* The codes a driver error may carry (err.code; 0: it carries none).
ErrorCodes == {0, 23505}

\* A driver error that carries a code.
CodedError(m, code) == [msg |-> m, code |-> code, status |-> 0, context |-> ""]

\* new Exception(message, { status }): only the message of the cause is kept.
Exception(m, status) == [msg |-> m, code |-> 0, status |-> status, context |-> ""]

\* new Exception(`Retry failed after ${retries} attempts.`,
\*               { context: { function: fn.toString() } })
RetryFailed == [msg |-> "Retry failed", code |-> 0, status |-> 0, context |-> "fn"]

\* ------------------------------------------------------------- asyncRetry
\* The options #tryToGetNewClientFromPool passes (delay defaults to 0).
AcquireOptions ==
  [retries |-> 2, minTimeout |-> 150, maxTimeout |-> 5000, factor |-> 2, delay |-> 0]

\* let retryCount = 0; let timeout = minTimeout;
RetryStart(o) == [retryCount |-> 0, timeout |-> o.minTimeout]

\* while(retryCount < retries)
RetryLoopCond(s, o) == s.retryCount < o.retries

\* catch: retryCount++
RetryCountFailure(s) == [s EXCEPT !.retryCount = @ + 1]

\* (mutant) the budget is taken to be spent one failure early
RetryExhaustedEarly(s, o) == s.retryCount + 1 >= o.retries

\* if(retryCount >= retries) throw
RetryExhausted(s, o) == s.retryCount >= o.retries

\* await delayPromise(timeout + delay)
RetryWait(s, o) == s.timeout + o.delay

\* timeout = Math.min(maxTimeout, timeout * factor)
RetryBackoff(s, o) == [s EXCEPT !.timeout = Min(o.maxTimeout, s.timeout * o.factor)]

\* ----------------------------------------------------------------- world
\* The synchronous code of a step is a function from world to world.
World ==
  [cache |-> cache, pools |-> pools, call |-> call, mq |-> mq, now |-> now,
   seen |-> seen]

\* A promise a call awaits settles: the call is queued as a microtask.
Settle(w, c, r, v) ==
  [w EXCEPT !.call[c].res = r, !.call[c].val = v, !.mq = Append(@, c)]

SettleOk(w, c) == Settle(w, c, "ok", NoValue)

\* The call awaits a promise that has not settled yet.
Await(w, c, at) == [w EXCEPT !.call[c].pc = at, !.call[c].res = "wait"]

\* ------------------------------------------------------------ pg.Pool (max: 1)
\* A pool: its flags, its one client, who holds it, who waits for it, and the
\* calls of end() it has seen (ender: who awaits the first, endCalls: how
\* many, endedBy: the operation that made the first).
NewPool ==
  [ending |-> FALSE, ended |-> FALSE, client |-> "none", holder |-> Null,
   pending |-> <<>>, ender |-> Null, endCalls |-> 0, endedBy |-> "none"]

\* Pool._pulseQueue
PulseQueue(w, p) ==
  LET P == w.pools[p] IN
  IF P.ended THEN w
  ELSE IF P.ending THEN
    LET cl == IF P.client = "idle" THEN "none" ELSE P.client IN
    IF cl = "none"
      THEN SettleOk([w EXCEPT !.pools[p].client = cl, !.pools[p].ended = TRUE], P.ender)
      ELSE [w EXCEPT !.pools[p].client = cl]
  ELSE IF P.pending = <<>> THEN w
  ELSE IF P.client \in {"busy", "connecting"} THEN w
  ELSE IF P.client = "idle"
    THEN SettleOk([w EXCEPT !.pools[p].client = "busy",
                            !.pools[p].holder = Head(P.pending),
                            !.pools[p].pending = Tail(@)], Head(P.pending))
    ELSE [w EXCEPT !.pools[p].client = "connecting",
                   !.pools[p].holder = Head(P.pending),
                   !.pools[p].pending = Tail(@)]

\* Pool.connect(), called by c
PoolConnect(w, p, c) ==
  LET P == w.pools[p] IN
  IF P.ending
    THEN Settle(w, c, "err", DriverError("Cannot use a pool after calling end on the pool"))
  ELSE IF P.client # "none"
    THEN PulseQueue([w EXCEPT !.pools[p].pending = Append(@, c)], p)
  ELSE [w EXCEPT !.pools[p].client = "connecting", !.pools[p].holder = c]

\* PoolClient.release(), of the client of pool p
PoolRelease(w, p) ==
  IF w.pools[p].ending
    THEN PulseQueue([w EXCEPT !.pools[p].client = "none", !.pools[p].holder = Null], p)
    ELSE PulseQueue([w EXCEPT !.pools[p].client = "idle", !.pools[p].holder = Null], p)

\* Pool.end(), called by c
PoolEnd(w, p, c) ==
  IF w.pools[p].ending
    THEN Settle([w EXCEPT !.pools[p].endCalls = @ + 1], c, "err",
                DriverError("Called end on pool more than once"))
    ELSE PulseQueue([w EXCEPT !.pools[p].ending = TRUE, !.pools[p].ender = c,
                              !.pools[p].endCalls = @ + 1,
                              !.pools[p].endedBy = w.call[c].op], p)

\* ------------------------------------------------------------ class Postgres
\* The mock server's record: the time at which the count the cache holds was
\* answered (Null: never), and the number of recycles completed on that count.
NothingSeen == [obtainedAt |-> Null, recycles |-> 0]

\* this.#cache = { pool: null, maxConnections: null, ... }
EmptyCache ==
  [pool |-> Null, maxConnections |-> Null, reservedConnections |-> Null,
   openedConnections |-> Null, openedConnectionsLastUpdate |-> Null]

\* The locals of one call: where it is (pc), what it awaits (res, val, num),
\* its retry state, the client it holds, and what it has done so far: events
\* (the calls a mock driver would record), trail (how each awaited promise
\* settled), released (the number of release() calls on its client), and
\* how the last query() it made on its transaction handle settled (hqKind,
\* hqResult; for isOnline(), how its probe settled), and the driver error
\* of its last failed connect attempt or statement (cause).
NewCall(o) ==
  [pc |-> "idle", op |-> o, res |-> "none", val |-> NoValue, num |-> 0,
   retry |-> RetryStart(AcquireOptions), from |-> Null, client |-> Null,
   currentTime |-> 0, tooMany |-> "none", pend |-> "none", pendVal |-> NoValue,
   kind |-> "none", result |-> NoValue, events |-> <<>>, trail |-> <<>>,
   released |-> 0, stmts |-> 0, hqKind |-> "none", hqResult |-> NoValue,
   cause |-> NoValue]

\* The call's promise settles: kind "ok" (resolved) or "err" (rejected).
Finish(w, c, k, v) ==
  [w EXCEPT !.call[c].pc = "done", !.call[c].res = "none", !.call[c].val = NoValue,
            !.call[c].num = 0, !.call[c].from = Null, !.call[c].currentTime = 0,
            !.call[c].retry = RetryStart(AcquireOptions),
            !.call[c].kind = k, !.call[c].result = v]

Log(w, c, e) == [w EXCEPT !.call[c].events = Append(@, e)]

\* client.query(...) on the client the call holds: a network round trip.
ClientQuery(w, c, e, at) == Await(Log(w, c, e), c, at)

\* client.release()
ClientRelease(w, c) ==
  PoolRelease([Log(w, c, "release") EXCEPT !.call[c].released = @ + 1], w.call[c].client)

\* #exec, catch (err): throw new Exception(err.message ?? err, { status: err.code || 500 })
ExecCatch(e) == Exception(e.msg, IF e.code # 0 THEN e.code ELSE 500)

\* (mutant) newClientFromPool constructs a pool at every attempt
NewClientFromFreshPool(w, c) ==
  LET w1 == [w EXCEPT !.pools = Append(@, NewPool), !.cache.pool = Len(w.pools) + 1]
      p == w1.cache.pool
  IN PoolConnect(Await(Log([w1 EXCEPT !.call[c].from = p], c, "connect"), c, "connect"), p, c)

\* newClientFromPool: if(!this.#cache.pool) new Pool(...); await pool.connect()
NewClientFromPool(w, c) ==
  LET w1 == IF w.cache.pool = Null
              THEN [w EXCEPT !.pools = Append(@, NewPool), !.cache.pool = Len(w.pools) + 1]
              ELSE w
      p == w1.cache.pool
  IN PoolConnect(Await(Log([w1 EXCEPT !.call[c].from = p], c, "connect"), c, "connect"), p, c)

\* options?.transaction of the #exec frame call c is in: the callback of a
\* transaction() passes its handle, query(text) and isOnline() pass none
OptionsTransaction(w, c) == w.call[c].op = "transaction"

\* the operations that are one call of #exec without a handle
ExecOps == {"query", "isOnline"}

\* (mutant) #isOnline has no try/catch: it settles as its probe does
IsOnlineRethrows(w, c, k, v) ==
  Finish([w EXCEPT !.call[c].hqKind = k, !.call[c].hqResult = v], c, k, v)

\* #isOnline: try { await this.#exec(...); return true } catch { return false }
IsOnlineSettles(w, c, k, v) ==
  Finish([w EXCEPT !.call[c].hqKind = k, !.call[c].hqResult = v], c, "ok",
         IF k = "ok" THEN Value("true") ELSE Value("false"))

\* #exec settles with (k, v): query(text) is finished; query(text,
\* { transaction }) gives the outcome to the callback that awaited it;
\* isOnline() turns it into a boolean
ExecSettles(w, c, k, v) ==
  IF OptionsTransaction(w, c)
    THEN [Await(w, c, "callback") EXCEPT !.call[c].val = NoValue,
                                         !.call[c].hqKind = k, !.call[c].hqResult = v]
  ELSE IF w.call[c].op = "isOnline" THEN IsOnlineSettles(w, c, k, v)
  ELSE Finish(w, c, k, v)

\* What the failure of #tryToGetNewClientFromPool does to its caller: #exec
\* catches and wraps it and skips the finally body (client is null);
\* transaction() lets it through.
AcquireFailed(w, c, e) ==
  IF w.call[c].op \in ExecOps
    THEN ExecSettles(w, c, "err", ExecCatch(e))
    ELSE Finish(w, c, "err", e)

\* asyncRetry's loop head: while(retryCount < retries) fn(); else the final throw
RetryLoop(w, c) ==
  IF RetryLoopCond(w.call[c].retry, AcquireOptions)
    THEN NewClientFromPool(w, c)
    ELSE AcquireFailed(w, c, RetryFailed)

\* #tryToGetNewClientFromPool: asyncRetry(newClientFromPool, {retries: 2, ...})
TryToGetNewClientFromPool(w, c) ==
  RetryLoop([w EXCEPT !.call[c].retry = RetryStart(AcquireOptions)], c)

\* asyncRetry, catch (error) of a failed attempt
RetryCatch(w, c) ==
  LET s == RetryCountFailure(w.call[c].retry)
      w1 == [w EXCEPT !.call[c].retry = s]
  IN IF RetryExhausted(s, AcquireOptions)
       THEN AcquireFailed(w1, c, Exception(w.call[c].val.msg, 0))
       ELSE Await(w1, c, "delay")

\* asyncRetry after delayPromise: the backoff, then the loop again
RetryAfterDelay(w, c) ==
  RetryLoop([w EXCEPT !.call[c].retry = RetryBackoff(@, AcquireOptions)], c)

\* (mutant) a count equal to the effective capacity is pressure
TooManyConnectionsNotStrict(opened, max, reserved) == 10 * opened >= 8 * (max - reserved)

\* the pressure decision of #checkForTooManyConnections (line 138):
\* opened > (max - reserved) * 0.8, over integers
TooManyConnections(opened, max, reserved) == 10 * opened > 8 * (max - reserved)

\* #checkForTooManyConnections returns: its caller resumes in a microtask
CheckReturn(w, c) ==
  LET t == TooManyConnections(w.cache.openedConnections, w.cache.maxConnections,
                              w.cache.reservedConnections)
  IN SettleOk([w EXCEPT !.call[c].pc = "checked",
                         !.call[c].tooMany = IF t THEN "yes" ELSE "no"], c)

\* is the cached count missing or older than the freshness window (line 132)
OpenedIsStale(k, currentTime) ==
  \/ k.openedConnections = Null
  \/ currentTime - k.openedConnectionsLastUpdate > openedConnectionsMaxAge

\* #checkForTooManyConnections from its second `if`
CheckOpened(w, c) ==
  IF OpenedIsStale(w.cache, w.call[c].currentTime)
    THEN ClientQuery(w, c, "opened", "opened")
    ELSE CheckReturn(w, c)

\* #checkForTooManyConnections from its start
CheckForTooManyConnections(w, c) ==
  LET w1 == [w EXCEPT !.call[c].currentTime = w.now] IN
  IF w1.cache.maxConnections = Null \/ w1.cache.reservedConnections = Null
    THEN ClientQuery(w1, c, "limits", "limits")
    ELSE CheckOpened(w1, c)

\* the limits query answered: both limits are cached
CheckGotLimits(w, c) ==
  CheckOpened([w EXCEPT !.cache.maxConnections = ServerLimits.maxConnections,
                        !.cache.reservedConnections = ServerLimits.reservedConnections], c)

\* the opened-connections query answered: the count and the time are cached
CheckGotOpened(w, c) ==
  CheckReturn([w EXCEPT !.cache.openedConnections = w.call[c].num,
                        !.cache.openedConnectionsLastUpdate = w.call[c].currentTime,
                        !.seen.obtainedAt = w.now, !.seen.recycles = 0], c)

\* (mutant) the finally block does not look at options.transaction
ExecFinallyIgnoringHandle(w, c, k, v) ==
  LET w1 == [w EXCEPT !.call[c].pend = k, !.call[c].pendVal = v] IN
  IF w1.call[c].client # Null
    THEN CheckForTooManyConnections(w1, c)
    ELSE ExecSettles(w, c, k, v)

\* #exec, finally: entered with the try/catch outcome pending (k, v)
ExecFinally(w, c, k, v) ==
  IF w.call[c].client # Null /\ ~OptionsTransaction(w, c)
    THEN CheckForTooManyConnections(
           [w EXCEPT !.call[c].pend = k, !.call[c].pendVal = v], c)
    ELSE ExecSettles(w, c, k, v)

\* #exec with options.transaction: client = options.transaction, then the
\* statement on it
ExecOnHandle(w, c) ==
  ClientQuery([w EXCEPT !.call[c].stmts = @ + 1], c, "stmt", "stmt")

\* await this.#cache.pool?.end(), called by c and awaited at `at`
CachePoolEnd(w, c, at) ==
  IF w.cache.pool = Null
    THEN SettleOk(Await(w, c, at), c)
    ELSE PoolEnd(Await(Log([w EXCEPT !.call[c].from = w.cache.pool], c, "end"), c, at),
                 w.cache.pool, c)

\* #exec, finally, after the check: release, and the recycle when pressure
ExecAfterCheck(w, c) ==
  LET w1 == ClientRelease(w, c) IN
  IF w.call[c].tooMany = "yes"
    THEN CachePoolEnd(w1, c, "end")
    ELSE ExecSettles(w1, c, w.call[c].pend, w.call[c].pendVal)

\* this.#cache.pool = null, after the awaited end()
ClearPoolHandle(w) == [w EXCEPT !.cache.pool = Null]

\* the recycle of #exec's finally block is complete: the handle is cleared
Recycled(w) == [ClearPoolHandle(w) EXCEPT !.seen.recycles = @ + 1]

\* transaction(): catch (err) { await client.query('ROLLBACK'); throw err }
TransactionCatch(w, c, e) ==
  ClientQuery([w EXCEPT !.call[c].pend = "err", !.call[c].pendVal = e], c, "ROLLBACK", "rollback")

\* (mutant) the finally block is missing: the outcome without the release
TransactionFinallyNoRelease(w, c, k, v) == Finish(w, c, k, v)

\* (mutant) the finally block also discards the pool handle
TransactionFinallyDropsPool(w, c, k, v) ==
  Finish(ClearPoolHandle(ClientRelease(w, c)), c, k, v)

\* transaction(): finally { client.release() }, then the pending outcome
TransactionFinally(w, c, k, v) == Finish(ClientRelease(w, c), c, k, v)

\* an introspection query fails: the rejection leaves #exec through its finally
CheckFailed(w, c) ==
  ExecSettles([w EXCEPT !.call[c].tooMany = "failed"], c, "err", w.call[c].val)

\* The continuation of call c after the promise it awaited has settled.
Continue(w0, c) ==
  LET k == w0.call[c]
      ok == k.res = "ok"
      w == [w0 EXCEPT !.call[c].trail = Append(@, <<k.pc, k.res>>),
                      !.call[c].cause =
                        IF k.res = "err" /\ k.op \in ExecOps /\ k.pc \in {"connect", "stmt"}
                          THEN k.val ELSE @]
  IN CASE k.pc = "connect" ->
            IF ok
              THEN LET w1 == [w EXCEPT !.call[c].client = k.from]
                   IN IF k.op \in ExecOps
                        THEN ClientQuery(w1, c, "stmt", "stmt")
                        ELSE ClientQuery(w1, c, "BEGIN", "begin")
              ELSE RetryCatch(w, c)
       [] k.pc = "delay" -> RetryAfterDelay(w, c)
       [] k.pc = "stmt" ->
            IF ok THEN ExecFinally(w, c, "ok", k.val)
                  ELSE ExecFinally(w, c, "err", ExecCatch(k.val))
       [] k.pc = "limits" ->
            IF ok THEN CheckGotLimits(w, c) ELSE CheckFailed(w, c)
       [] k.pc = "opened" ->
            IF ok THEN CheckGotOpened(w, c) ELSE CheckFailed(w, c)
       [] k.pc = "checked" -> ExecAfterCheck(w, c)
       [] k.pc = "end" ->
            IF ok THEN ExecSettles(Recycled(w), c, k.pend, k.pendVal)
                  ELSE ExecSettles(w, c, "err", k.val)
       [] k.pc = "begin" ->
            IF ok THEN Await(w, c, "callback") ELSE Finish(w, c, "err", k.val)
       [] k.pc = "callback" ->
            IF ok
              THEN ClientQuery([w EXCEPT !.call[c].pend = "ok", !.call[c].pendVal = k.val],
                               c, "COMMIT", "commit")
              ELSE TransactionCatch(w, c, k.val)
       [] k.pc = "commit" ->
            IF ok THEN TransactionFinally(w, c, k.pend, k.pendVal)
                  ELSE TransactionCatch(w, c, k.val)
       [] k.pc = "rollback" ->
            IF ok THEN TransactionFinally(w, c, "err", k.pendVal)
                  ELSE TransactionFinally(w, c, "err", k.val)
       [] k.pc = "closeEnd" ->
            IF ok THEN Finish(ClearPoolHandle(w), c, "ok", NoValue)
                  ELSE Finish(w, c, "err", k.val)

\* The synchronous start of a call: query(), isOnline(), transaction() or
\* close().
Start(w, c, o) ==
  LET w1 == [w EXCEPT !.call[c] = NewCall(o)] IN
  IF o = "close" THEN CachePoolEnd(w1, c, "closeEnd")
  ELSE TryToGetNewClientFromPool(w1, c)

\* ------------------------------------------------------- asyncRetry, alone
\* asyncRetry(fn, options) with fn's outcomes chosen freely: the options, the
\* retry state, and what a mock fn and a mock clock would record.
AttemptError(n) == DriverError(<<"error 1", "error 2", "error 3", "error 4", "error 5">>[n])

RetryOptionSets ==
  [retries : 0..MaxRetries, minTimeout : {0, 100, 6000}, maxTimeout : {150, 5000},
   factor : {1, 2}, delay : {0, 10}]

RtIdle ==
  [pc |-> "off", o |-> AcquireOptions, s |-> RetryStart(AcquireOptions),
   invocations |-> 0, outcomes |-> <<>>, waits |-> <<>>, kind |-> "none",
   result |-> NoValue]

\* while(retryCount < retries) { try { await fn() ...
RtInvoke ==
  /\ UNCHANGED <<seen, cache, pools, call, mq, now, calls, pr>>
  /\ rt.pc = "loop"
  /\ RetryLoopCond(rt.s, rt.o)
  /\ rt' = [rt EXCEPT !.pc = "fn", !.invocations = @ + 1]

\* the loop ends without a return or a throw: the final throw (line 45)
RtFallThrough ==
  /\ UNCHANGED <<seen, cache, pools, call, mq, now, calls, pr>>
  /\ rt.pc = "loop"
  /\ ~RetryLoopCond(rt.s, rt.o)
  /\ rt' = [rt EXCEPT !.pc = "done", !.kind = "err", !.result = RetryFailed]

\* fn resolves: return result
RtFnOk ==
  /\ UNCHANGED <<seen, cache, pools, call, mq, now, calls, pr>>
  /\ rt.pc = "fn"
  /\ rt' = [rt EXCEPT !.pc = "done", !.kind = "ok", !.result = Value("result"),
                      !.outcomes = Append(@, "ok")]

\* fn rejects: the catch block up to the throw or the delay
RtFnFail ==
  /\ UNCHANGED <<seen, cache, pools, call, mq, now, calls, pr>>
  /\ rt.pc = "fn"
  /\ LET s == RetryCountFailure(rt.s)
         e == AttemptError(rt.invocations)
     IN IF RetryExhausted(s, rt.o)
          THEN rt' = [rt EXCEPT !.pc = "done", !.s = s, !.kind = "err",
                                !.result = Exception(e.msg, 0),
                                !.outcomes = Append(@, "fail")]
          ELSE rt' = [rt EXCEPT !.pc = "delay", !.s = s,
                                !.outcomes = Append(@, "fail"),
                                !.waits = Append(@, RetryWait(rt.s, rt.o))]

\* delayPromise resolves: the backoff, and the loop again
RtDelayDone ==
  /\ UNCHANGED <<seen, cache, pools, call, mq, now, calls, pr>>
  /\ rt.pc = "delay"
  /\ rt' = [rt EXCEPT !.pc = "loop", !.s = RetryBackoff(@, rt.o)]

RetryNext == RtInvoke \/ RtFallThrough \/ RtFnOk \/ RtFnFail \/ RtDelayDone

\* ------------------------------------------------ the pressure decision, alone
\* The decision of #checkForTooManyConnections on a cache that holds the
\* limits and a count: the inputs, and what the check returns.
PrIdle ==
  [opened |-> 0, maxConnections |-> ServerLimits.maxConnections,
   reservedConnections |-> ServerLimits.reservedConnections, result |-> "off"]

PressureInputs ==
  [opened : 0..MaxOpened, maxConnections : {20, 100}, reservedConnections : {0, 5},
   result : {"none"}]

\* if(opened > (max - reserved) * maxConnectionsTolerance) return true; return false
PrDecide ==
  /\ UNCHANGED <<seen, cache, pools, call, mq, now, calls, rt>>
  /\ pr.result = "none"
  /\ pr' = [pr EXCEPT !.result =
              IF TooManyConnections(pr.opened, pr.maxConnections, pr.reservedConnections)
                THEN "yes" ELSE "no"]

PressureNext == PrDecide

\* ----------------------------------------------------------------- actions
Apply(w) ==
  /\ cache' = w.cache
  /\ pools' = w.pools
  /\ call' = w.call
  /\ mq' = w.mq
  /\ seen' = w.seen

\* The promise of a finished call settles its caller at once: the caller takes
\* the outcome before the event loop does anything else.
NoneDone == \A c \in Callers : call[c].pc # "done"

CanCall(c) == NoneDone /\ call[c].pc = "idle" /\ calls < MaxCalls

\* the caller of a finished call takes its outcome
Return(c) ==
  /\ call[c].pc = "done"
  /\ call' = [call EXCEPT ![c] = NewCall("none")]
  /\ UNCHANGED <<seen, cache, pools, mq, now, calls, rt, pr>>

\* a caller calls query(text) with no transaction handle
CallQuery(c) ==
  /\ CanCall(c)
  /\ Apply(Start(World, c, "query"))
  /\ calls' = calls + 1
  /\ UNCHANGED <<now, rt, pr>>

\* a caller calls isOnline()
CallIsOnline(c) ==
  /\ CanCall(c)
  /\ Apply(Start(World, c, "isOnline"))
  /\ calls' = calls + 1
  /\ UNCHANGED <<now, rt, pr>>

\* a caller calls transaction(callback)
CallTransaction(c) ==
  /\ CanCall(c)
  /\ Apply(Start(World, c, "transaction"))
  /\ calls' = calls + 1
  /\ UNCHANGED <<now, rt, pr>>

\* a caller calls close()
CallClose(c) ==
  /\ CanCall(c)
  /\ Apply(Start(World, c, "close"))
  /\ calls' = calls + 1
  /\ UNCHANGED <<now, rt, pr>>

\* the event loop runs the first microtask
Resume ==
  /\ NoneDone
  /\ mq # <<>>
  /\ Apply(Continue([World EXCEPT !.mq = Tail(mq)], Head(mq)))
  /\ UNCHANGED <<now, calls, rt, pr>>

\* the pool's new client connects: it goes to the call that asked for it
ConnectOk(p) ==
  /\ NoneDone /\ mq = <<>>
  /\ pools[p].client = "connecting"
  /\ Apply(SettleOk([World EXCEPT !.pools[p].client = "busy"], pools[p].holder))
  /\ UNCHANGED <<now, calls, rt, pr>>

\* the pool's new client fails to connect (or exceeds connectionTimeoutMillis)
ConnectFail(p) ==
  /\ NoneDone /\ mq = <<>>
  /\ pools[p].client = "connecting"
  /\ \E code \in ErrorCodes :
       Apply(Settle(PulseQueue([World EXCEPT !.pools[p].client = "none",
                                             !.pools[p].holder = Null], p),
                    pools[p].holder, "err", CodedError("connect failed", code)))
  /\ UNCHANGED <<now, calls, rt, pr>>

RemoveAt(q, i) == SubSeq(q, 1, i - 1) \o SubSeq(q, i + 1, Len(q))

\* a call queued on a busy pool waits longer than connectionTimeoutMillis
ConnectTimeout(p, i) ==
  /\ NoneDone /\ mq = <<>>
  /\ i \in 1..Len(pools[p].pending)
  /\ Apply(Settle([World EXCEPT !.pools[p].pending = RemoveAt(@, i)],
                  pools[p].pending[i], "err",
                  DriverError("timeout exceeded when trying to connect")))
  /\ UNCHANGED <<now, calls, rt, pr>>

\* the pool drops its idle client (idleTimeoutMillis, or the server closed it)
IdleDrop(p) ==
  /\ NoneDone /\ mq = <<>>
  /\ pools[p].client = "idle"
  /\ pools' = [pools EXCEPT ![p].client = "none"]
  /\ UNCHANGED <<seen, cache, call, mq, now, calls, rt, pr>>

NetworkPcs == {"stmt", "limits", "opened", "begin", "commit", "rollback"}

OnTheWire(c) == call[c].pc \in NetworkPcs /\ call[c].res = "wait"

\* the server answers the query call c awaits
QueryOk(c) ==
  /\ NoneDone /\ mq = <<>>
  /\ OnTheWire(c)
  /\ \E n \in IF call[c].pc = "opened" THEN OpenedValues ELSE {0} :
       Apply(Settle([World EXCEPT !.call[c].num = n], c, "ok", Value("rows")))
  /\ UNCHANGED <<now, calls, rt, pr>>

\* the query call c awaits fails
QueryFail(c) ==
  /\ NoneDone /\ mq = <<>>
  /\ OnTheWire(c)
  /\ \E code \in IF call[c].pc = "stmt" /\ call[c].op \in ExecOps THEN ErrorCodes ELSE {0} :
       Apply(Settle(World, c, "err", CodedError(call[c].pc, code)))
  /\ UNCHANGED <<now, calls, rt, pr>>

InCallback(c) == call[c].pc = "callback" /\ call[c].res = "wait"

\* the transaction callback calls query(text, { transaction: client })
CallbackStmt(c) ==
  /\ NoneDone /\ mq = <<>>
  /\ InCallback(c)
  /\ call[c].stmts < MaxStmts
  /\ Apply(ExecOnHandle(World, c))
  /\ UNCHANGED <<now, calls, rt, pr>>

\* the transaction callback returns
CallbackReturn(c) ==
  /\ NoneDone /\ mq = <<>>
  /\ InCallback(c)
  /\ Apply(Settle(World, c, "ok", Value("callback value")))
  /\ UNCHANGED <<now, calls, rt, pr>>

\* the transaction callback throws
CallbackThrow(c) ==
  /\ NoneDone /\ mq = <<>>
  /\ InCallback(c)
  /\ Apply(Settle(World, c, "err", DriverError("callback error")))
  /\ UNCHANGED <<now, calls, rt, pr>>

\* the retry delay of call c elapses
TimerFire(c) ==
  /\ NoneDone /\ mq = <<>>
  /\ call[c].pc = "delay" /\ call[c].res = "wait"
  /\ Apply(SettleOk(World, c))
  /\ UNCHANGED <<now, calls, rt, pr>>

\* time passes
Tick ==
  /\ NoneDone /\ mq = <<>>
  /\ now + TickMs <= MaxTicks * TickMs
  /\ now' = now + TickMs
  /\ UNCHANGED <<seen, cache, pools, call, mq, calls, rt, pr>>

PoolIds == 1..Len(pools)

Init ==
  /\ cache = EmptyCache
  /\ pools = <<>>
  /\ call = [c \in Callers |-> NewCall("none")]
  /\ NoneDone /\ mq = <<>>
  /\ now = 0
  /\ calls = 0
  /\ rt = RtIdle
  /\ seen = NothingSeen
  /\ pr = PrIdle

Next ==
  \/ \E c \in Callers : CallQuery(c)
  \/ \E c \in Callers : CallTransaction(c)
  \/ \E c \in Callers : CallClose(c)
  \/ \E c \in Callers : Return(c)
  \/ Resume
  \/ \E p \in PoolIds : ConnectOk(p)
  \/ \E p \in PoolIds : ConnectFail(p)
  \/ \E p \in PoolIds : \E i \in 1..NumCallers : ConnectTimeout(p, i)
  \/ \E p \in PoolIds : IdleDrop(p)
  \/ \E c \in Callers : QueryOk(c)
  \/ \E c \in Callers : QueryFail(c)
  \/ \E c \in Callers : CallbackStmt(c)
  \/ \E c \in Callers : CallbackReturn(c)
  \/ \E c \in Callers : CallbackThrow(c)
  \/ \E c \in Callers : TimerFire(c)
  \/ Tick

Spec == Init /\ [][Next]_vars

\* the driver with isOnline() among the calls
OnlineNext == (\E c \in Callers : CallIsOnline(c)) \/ Next

OnlineSpec == Init /\ [][OnlineNext]_vars

RetryInit ==
  /\ cache = EmptyCache
  /\ pools = <<>>
  /\ call = [c \in Callers |-> NewCall("none")]
  /\ NoneDone /\ mq = <<>>
  /\ now = 0
  /\ calls = 0
  /\ seen = NothingSeen
  /\ pr = PrIdle
  /\ \E o \in RetryOptionSets :
       rt = [RtIdle EXCEPT !.pc = "loop", !.o = o, !.s = RetryStart(o)]

RetrySpec == RetryInit /\ [][RetryNext]_vars

PressureInit ==
  /\ cache = EmptyCache
  /\ pools = <<>>
  /\ call = [c \in Callers |-> NewCall("none")]
  /\ NoneDone /\ mq = <<>>
  /\ now = 0
  /\ calls = 0
  /\ seen = NothingSeen
  /\ rt = RtIdle
  /\ pr \in PressureInputs

PressureSpec == PressureInit /\ [][PressureNext]_vars

\* ------------------------------------------------------------ observations
\* how the promises call c awaited at `at` settled, in order
Outcomes(c, at) ==
  LET t == SelectSeq(call[c].trail, LAMBDA x : x[1] = at)
  IN [i \in 1..Len(t) |-> t[i][2]]

Settled(c, at, r) == \E i \in 1..Len(call[c].trail) : call[c].trail[i] = <<at, r>>

\* the calls made on the connection the call holds, in order
ConnEvents(c) ==
  SelectSeq(call[c].events, LAMBDA e : e \notin {"connect", "end"})

Count(q, e) == Len(SelectSeq(q, LAMBDA x : x = e))

Stmts(n) == [i \in 1..n |-> "stmt"]

Done(c) == call[c].pc = "done"

Acquired(c) == call[c].client # Null

\* ------------------------------------------------------------------ claims
\* C1: every connection a non-transactional query() acquired is released
\* exactly once, whatever the statement and the introspection queries do:
\* never twice, and once by the time query() has finished.
C1_QueryReleasesExactlyOnce ==
  \A c \in Callers : call[c].op = "query" =>
    /\ call[c].released <= 1
    /\ (Done(c) /\ Acquired(c)) => call[c].released = 1

\* C2: a failed introspection query never surfaces: query() settles with the
\* statement's own outcome (its result, or its normalized error).
C2_IntrospectionFailureNeverSurfaces ==
  \A c \in Callers :
    (call[c].op = "query" /\ Done(c) /\ call[c].tooMany = "failed") =>
      /\ call[c].kind = call[c].pend
      /\ call[c].result = call[c].pendVal

\* C3: when query() has finished after a completed pressure check: on pressure
\* the pool it ran on is closed and is no longer the handle; without pressure
\* the call has closed nothing.
C3_PressureDecidesRecycle ==
  \A c \in Callers :
    (call[c].op = "query" /\ Done(c) /\ Acquired(c)) =>
      /\ call[c].tooMany = "yes" =>
           (pools[call[c].client].ended /\ cache.pool # call[c].client)
      /\ call[c].tooMany = "no" => Count(call[c].events, "end") = 0

\* C4: the step by which a pressure-triggered recycle clears the pool handle
\* leaves the whole cache cleared (limits, count and timestamp null too).
C4_RecycleClearsCache ==
  [][\A c \in Callers :
       (call[c].pc = "end" /\ call'[c].pc = "done" /\ call'[c].kind = call[c].pend
        /\ mq # <<>> /\ Head(mq) = c /\ call[c].res = "ok")
       => cache' = EmptyCache]_vars

\* C5: every connection transaction() acquired is released exactly once, and
\* its events run BEGIN, then COMMIT or ROLLBACK (or both), then release: no
\* transaction() finishes holding a connection it has not released.
C5_TransactionReleasesExactlyOnce ==
  \A c \in Callers : call[c].op = "transaction" =>
    /\ call[c].released <= 1
    /\ (Done(c) /\ Acquired(c)) =>
         /\ call[c].released = 1
         /\ ConnEvents(c)[Len(ConnEvents(c))] = "release"

\* C6: when the callback throws, the connection sees BEGIN, the callback's
\* statements, ROLLBACK, release, and transaction() rejects with the
\* callback's error.
C6_CallbackThrowRollsBack ==
  \A c \in Callers :
    (call[c].op = "transaction" /\ Done(c) /\ Settled(c, "callback", "err")) =>
      /\ ConnEvents(c) = <<"BEGIN">> \o Stmts(call[c].stmts) \o <<"ROLLBACK", "release">>
      /\ call[c].kind = "err"
      /\ call[c].result = DriverError("callback error")

\* C7: when the callback returns and COMMIT succeeds, the connection sees
\* BEGIN, the callback's statements, COMMIT, release (one COMMIT, one release,
\* no ROLLBACK), and transaction() resolves with the callback's value.
C7_CallbackReturnCommits ==
  \A c \in Callers :
    (call[c].op = "transaction" /\ Done(c) /\ Settled(c, "callback", "ok")
     /\ Settled(c, "commit", "ok")) =>
      /\ ConnEvents(c) = <<"BEGIN">> \o Stmts(call[c].stmts) \o <<"COMMIT", "release">>
      /\ call[c].released = 1
      /\ call[c].kind = "ok"
      /\ call[c].result = Value("callback value")

C7_Witness ==
  \E c \in Callers :
    /\ call[c].op = "transaction" /\ Done(c) /\ call[c].stmts = 1
    /\ Settled(c, "callback", "ok") /\ Settled(c, "commit", "ok")

\* C8: when the callback fails and the ROLLBACK fails too, transaction()
\* rejects with the callback's error, not with the ROLLBACK's.
C8_RollbackFailureKeepsOriginalError ==
  \A c \in Callers :
    (call[c].op = "transaction" /\ Done(c) /\ Settled(c, "callback", "err")
     /\ Settled(c, "rollback", "err")) =>
      /\ call[c].kind = "err"
      /\ call[c].result = DriverError("callback error")

\* C9: acquire() makes at most 2 connect attempts; it has the connection when
\* the first attempt succeeds or when the first fails and the second succeeds;
\* it fails, with an error, exactly when both attempts have failed.
C9_AcquireWithinTwoAttempts ==
  \A c \in Callers : call[c].op \in {"query", "transaction"} =>
    LET outs == Outcomes(c, "connect") IN
    /\ Count(call[c].events, "connect") <= 2
    /\ outs \in {<<"ok">>, <<"err", "ok">>} => Acquired(c)
    /\ (Done(c) /\ ~Acquired(c)) <=> outs = <<"err", "err">>
    /\ outs = <<"err", "err">> => call[c].kind = "err"

C9_Witness ==
  \E c \in Callers :
    /\ call[c].op = "query" /\ Acquired(c)
    /\ Outcomes(c, "connect") = <<"err", "ok">>

\* C10: asyncRetry with retries >= 1 invokes the operation at most `retries`
\* times; it returns at the first invocation that succeeds (every earlier one
\* failed, none follows), and it fails only after exactly `retries` failed
\* invocations.
C10_RetryInvocations ==
  rt.o.retries >= 1 =>
    LET n == Len(rt.outcomes) IN
    /\ rt.invocations <= rt.o.retries
    /\ \A i \in 1..n : rt.outcomes[i] = "ok" => (i = n /\ rt.pc = "done" /\ rt.kind = "ok")
    /\ (rt.pc = "done" /\ rt.kind = "ok") =>
         (n = rt.invocations /\ rt.outcomes[n] = "ok" /\ rt.result = Value("result"))
    /\ (rt.pc = "done" /\ rt.kind = "err") =>
         (n = rt.o.retries /\ rt.invocations = rt.o.retries
          /\ \A i \in 1..n : rt.outcomes[i] = "fail")

C10_Witness ==
  /\ rt.pc = "done" /\ rt.kind = "ok"
  /\ rt.o.retries = 3 /\ rt.outcomes = <<"fail", "ok">>

\* the steps of a query() on a transaction handle: #exec up to the awaited
\* statement, and #exec from the statement's outcome to its own
HandleQueryStarts(c) ==
  call[c].op = "transaction" /\ call[c].pc = "callback" /\ call'[c].pc = "stmt"

HandleQueryReturns(c) ==
  call[c].op = "transaction" /\ call[c].pc = "stmt" /\ call'[c].pc # "stmt"

\* C11: query() with a transaction handle runs the statement on the handle
\* and then settles with the statement's result or its normalized error; its
\* steps acquire nothing, release nothing, check nothing and recycle nothing:
\* the cache (pool handle, limits, count, timestamp) and every pool are as
\* they were, and the handle is still held and unreleased.
C11_HandleQueryIsFrame ==
  [][\A c \in Callers :
       /\ HandleQueryStarts(c) =>
            /\ call'[c].events = Append(call[c].events, "stmt")
            /\ cache' = cache /\ pools' = pools
            /\ call'[c].client = call[c].client
            /\ call'[c].released = call[c].released
       /\ HandleQueryReturns(c) =>
            /\ call'[c].pc = "callback"
            /\ call'[c].events = call[c].events
            /\ cache' = cache /\ pools' = pools
            /\ call'[c].client = call[c].client
            /\ call'[c].released = 0
            /\ pools[call[c].client].client = "busy"
            /\ call'[c].hqKind = call[c].res
            /\ call[c].res = "ok" => call'[c].hqResult = call[c].val
            /\ call[c].res = "err" => call'[c].hqResult = ExecCatch(call[c].val)
    ]_vars

C11_Witness ==
  \E c \in Callers :
    /\ call[c].op = "transaction" /\ InCallback(c)
    /\ call[c].hqKind = "err" /\ call[c].released = 0
    /\ cache.maxConnections # Null

\* C12: when the acquisition (both connect attempts) or the statement of a
\* query() has failed with driver error e, query() rejects with the Exception
\* that carries e's message and, as status, e's code if it has one and 500
\* otherwise: it does not resolve, and it rejects with nothing else.
C12_DriverErrorIsNormalized ==
  \A c \in Callers :
    (call[c].op = "query" /\ Done(c)
     /\ (Outcomes(c, "connect") = <<"err", "err">> \/ Settled(c, "stmt", "err"))) =>
      /\ call[c].kind = "err"
      /\ call[c].result =
           [msg |-> call[c].cause.msg, code |-> 0, context |-> "",
            status |-> IF call[c].cause.code # 0 THEN call[c].cause.code ELSE 500]

\* C13: the opened-connections query is issued at most once per freshness
\* window: a pressure check that runs within 5000 ms of the last refresh of
\* the cached count issues no opened-connections query.
C13_OpenedQueryOncePerWindow ==
  [][\A c \in Callers :
       (call[c].pc # "opened" /\ call'[c].pc = "opened") =>
         \/ seen.obtainedAt = Null
         \/ now - seen.obtainedAt > openedConnectionsMaxAge
    ]_vars

\* C14: whenever the cached count has just been compared with the threshold
\* (the check has returned and its caller has not resumed yet, so no time has
\* passed), the count was answered by the server at most 5000 ms ago.
C14_DecisionOnFreshCount ==
  \A c \in Callers :
    call[c].pc = "checked" =>
      /\ seen.obtainedAt # Null
      /\ now - seen.obtainedAt <= openedConnectionsMaxAge

\* C15: the pressure check returns true exactly when the count is strictly
\* above four fifths of (max - reserved); with max 100 and reserved 5 (capacity
\* 76) a count of 90 is pressure and counts of 50 and 76 are not.
C15_PressureIffAboveCapacity ==
  pr.result \in {"yes", "no"} =>
    LET available == pr.maxConnections - pr.reservedConnections IN
    /\ pr.result = "yes" <=> 5 * pr.opened > 4 * available
    /\ (5 * pr.opened = 4 * available) => pr.result = "no"
    /\ (available = 95 /\ pr.opened = 90) => pr.result = "yes"
    /\ (available = 95 /\ pr.opened \in {50, 76}) => pr.result = "no"

C15_Witness ==
  /\ pr.maxConnections = 100 /\ pr.reservedConnections = 5
  /\ pr.opened = 76 /\ pr.result = "no"

\* C16: the handle is null or one pool, and a pool is constructed only by a
\* step that finds the handle null and makes the new pool the handle: every
\* connect attempt (first or retried, whoever else is acquiring) that finds a
\* pool in the handle asks that pool and constructs nothing.
C16_OnePoolHandle ==
  [][/\ cache'.pool = Null \/ cache'.pool \in 1..Len(pools')
     /\ Len(pools') # Len(pools) =>
          /\ cache.pool = Null
          /\ Len(pools') = Len(pools) + 1
          /\ cache'.pool = Len(pools')
     /\ \A c \in Callers :
          (Len(call'[c].events) > Len(call[c].events)
           /\ call'[c].events[Len(call'[c].events)] = "connect") =>
            /\ call'[c].from = cache'.pool
            /\ cache.pool # Null => (cache'.pool = cache.pool /\ Len(pools') = Len(pools))
    ]_vars

C16_Witness ==
  \E c, d \in Callers :
    /\ c # d /\ Len(pools) = 1 /\ cache.pool = 1
    /\ call[c].pc = "connect" /\ call[c].retry.retryCount = 1 /\ call[c].from = 1
    /\ call[d].pc = "connect" /\ call[d].from = 1

\* C17: a close() that found a pool in the handle has, when it finishes,
\* closed that pool and left the handle null; a close() that found the handle
\* null finishes without error and its steps change nothing (so a second
\* close() after a first leaves the state of the first).
C17_CloseIdempotent ==
  [][\A c \in Callers :
       (call[c].op = "close" /\ call[c].pc = "closeEnd" /\ call'[c].pc = "done") =>
         IF call[c].from = Null
           THEN /\ call'[c].kind = "ok"
                /\ cache' = cache
                /\ pools' = pools
           ELSE /\ pools'[call[c].from].ended
                /\ cache'.pool = Null
    ]_vars

RECURSIVE Pow(_, _)
Pow(b, n) == IF n = 0 THEN 1 ELSE b * Pow(b, n - 1)

\* C18: with retries >= 1, the k-th wait of asyncRetry (after failed attempt
\* k) is min(maxTimeout, minTimeout * factor^(k-1)) + delay, the first wait
\* included; there is one wait per failed attempt but none after the last
\* attempt of the budget.
C18_WaitsAreCappedBackoff ==
  rt.o.retries >= 1 =>
    /\ \A k \in 1..Len(rt.waits) :
         rt.waits[k] = Min(rt.o.maxTimeout, rt.o.minTimeout * Pow(rt.o.factor, k - 1))
                       + rt.o.delay
    /\ Len(rt.waits) <= rt.o.retries - 1
    /\ Len(rt.waits) = Min(Count(rt.outcomes, "fail"), rt.o.retries - 1)

\* C19: when asyncRetry (retries >= 1) fails after all its attempts have
\* failed, its error carries the error of the last attempt, not of an earlier
\* one, and names the operation that was retried.
C19_ExhaustedErrorWrapsLast ==
  (rt.o.retries >= 1 /\ rt.pc = "done" /\ rt.kind = "err") =>
    /\ rt.result.msg = AttemptError(rt.o.retries).msg
    /\ \A i \in 1..(rt.o.retries - 1) : rt.result.msg # AttemptError(i).msg
    /\ rt.result.context = "fn"

\* the calls of a pressure check on the connection
CheckEvents == {<<>>, <<"limits">>, <<"opened">>, <<"limits", "opened">>}

\* C20: a query() that acquired a connection runs, after its statement
\* (succeeded or failed), the pressure check on that connection while it
\* holds it, then releases it, and closes the pool only after the release and
\* only on pressure: when it has finished, the connection has seen the
\* statement, the check, then the release.
C20_CheckThenReleaseThenClose ==
  \A c \in Callers : (call[c].op = "query" /\ Acquired(c)) =>
    /\ call[c].pc \in {"limits", "opened", "checked"} =>
         (call[c].released = 0 /\ pools[call[c].client].client = "busy")
    /\ call[c].released = 1 => Settled(c, "checked", "ok")
    /\ Count(call[c].events, "end") > 0 =>
         (call[c].released = 1 /\ call[c].tooMany = "yes")
    /\ Done(c) =>
         \E ch \in CheckEvents : ConnEvents(c) = <<"stmt">> \o ch \o <<"release">>

\* C21: when the callback has returned and COMMIT has failed, the connection
\* sees a ROLLBACK after the COMMIT (then the release), and transaction()
\* rejects with the error of the COMMIT.
C21_CommitFailureRollsBack ==
  \A c \in Callers :
    (call[c].op = "transaction" /\ Done(c) /\ Settled(c, "callback", "ok")
     /\ Settled(c, "commit", "err")) =>
      /\ ConnEvents(c) =
           <<"BEGIN">> \o Stmts(call[c].stmts) \o <<"COMMIT", "ROLLBACK", "release">>
      /\ call[c].kind = "err"
      /\ call[c].result = DriverError("commit")

\* the steps that run code of call c: its start, a statement of its callback,
\* and every continuation after an awaited promise
Runs(c) ==
  \/ call[c].pc = "idle" /\ call'[c].pc # "idle"
  \/ call[c].pc = "callback" /\ call'[c].pc = "stmt"
  \/ Len(call'[c].trail) > Len(call[c].trail)

\* C22: no step of a transaction() call (successful or failed) runs the
\* pressure check or recycles: the cached limits, count and timestamp are
\* unchanged, no introspection query and no pool close is issued, end() is
\* called on no pool, and a pool handle that is set stays as it is.
C22_TransactionNeverChecksOrRecycles ==
  [][\A c \in Callers :
       (call'[c].op = "transaction" /\ Runs(c)) =>
         /\ cache'.maxConnections = cache.maxConnections
         /\ cache'.reservedConnections = cache.reservedConnections
         /\ cache'.openedConnections = cache.openedConnections
         /\ cache'.openedConnectionsLastUpdate = cache.openedConnectionsLastUpdate
         /\ cache.pool # Null => cache'.pool = cache.pool
         /\ \A p \in 1..Len(pools) : pools'[p].endCalls = pools[p].endCalls
         /\ \A e \in {"limits", "opened", "end"} : Count(call'[c].events, e) = 0
         /\ call'[c].tooMany = "none"
    ]_vars

C22_Witness ==
  \E c \in Callers :
    /\ call[c].op = "transaction" /\ Done(c) /\ call[c].kind = "ok"
    /\ cache.openedConnections = 90 /\ cache.pool # Null

\* call c has a connection it has not released
Holds(c) == call[c].client # Null /\ call[c].released = 0

\* C23: at most one connection of the driver is borrowed at any time: at most
\* one pool has its client checked out, at most one call holds a connection,
\* and the connection a call holds is checked out to that call.
C23_OneBorrowedConnection ==
  /\ Cardinality({p \in PoolIds : pools[p].client = "busy"}) <= 1
  /\ Cardinality({c \in Callers : Holds(c)}) <= 1
  /\ \A c \in Callers : Holds(c) =>
       (pools[call[c].client].client = "busy" /\ pools[call[c].client].holder = c)

\* the errors by which pg.Pool refuses a call on a pool that is closing or closed
PoolClosedErrors ==
  {"Called end on pool more than once", "Cannot use a pool after calling end on the pool"}

\* C24: a call that holds a borrowed connection keeps it (the pool has it
\* checked out to that call) until the call itself releases it, whatever
\* recycle goes on; and a call that acquired a connection does not fail with a
\* pool-is-closed error because a query() has recycled the pool.
C24_RecycleSparesBorrowers ==
  [][\A c \in Callers :
       /\ (call'[c].client # Null /\ call'[c].released = 0) =>
            (pools'[call'[c].client].client = "busy" /\ pools'[call'[c].client].holder = c)
       /\ (call[c].op \in {"query", "transaction"} /\ call[c].client # Null
           /\ call[c].pc # "done" /\ call'[c].pc = "done"
           /\ call[c].from # Null /\ pools[call[c].from].endedBy = "query") =>
            ~(call'[c].kind = "err" /\ call'[c].result.msg \in PoolClosedErrors)
    ]_vars

\* the client of pool p is checked out to a call in flight that still holds
\* it (or is about to take it from its connect())
HeldByLiveCall(p) ==
  \E h \in Callers :
    /\ pools[p].holder = h
    /\ call[h].pc \notin {"idle", "done"}
    /\ \/ call[h].client = p /\ call[h].released = 0
       \/ call[h].pc = "connect" /\ call[h].res = "ok" /\ call[h].from = p

\* call c awaits the end() of a pool whose client is checked out and will
\* never be released, no call in flight holding it: nothing can settle the
\* promise c awaits
BlockedForever(c) ==
  /\ call[c].pc = "end" /\ call[c].res = "wait"
  /\ pools[call[c].from].client = "busy"
  /\ ~HeldByLiveCall(call[c].from)

C26_BeginFailureReleases ==
  \A c \in Callers :
    (call[c].op = "transaction" /\ Done(c) /\ Settled(c, "begin", "err")) =>
      /\ call[c].kind = "err"
      /\ call[c].released = 1

\* call c issues pool.connect() in this step
IssuesConnect(c) ==
  /\ Len(call'[c].events) > Len(call[c].events)
  /\ call'[c].events[Len(call'[c].events)] = "connect"

\* C27: no pool.connect() is issued to a pool on which end() has been called:
\* every connect attempt goes to a pool that is not closing, or to the pool
\* the attempt has just constructed.
C27_NoConnectToClosingPool ==
  [][\A c \in Callers :
       IssuesConnect(c) =>
         \/ call'[c].from \notin 1..Len(pools)
         \/ ~pools[call'[c].from].ending
    ]_vars

\* C28: the step of a recycle or a close() that sets the handle to null
\* removes the pool on which that same call has invoked end(); every
\* constructed pool is the handle's pool or has been closed; and end() is
\* invoked at most once on a pool.
C28_NoOrphanNoDoubleClose ==
  [][/\ \A c \in Callers :
          (Len(call'[c].trail) > Len(call[c].trail)
           /\ cache.pool # Null /\ cache'.pool = Null) => call[c].from = cache.pool
     /\ \A p \in 1..Len(pools') :
          /\ p = cache'.pool \/ pools'[p].ending
          /\ pools'[p].endCalls <= 1
    ]_vars

\* C29: one measurement of the opened connections causes at most one recycle:
\* no second recycle completes on a count that has not been fetched again
\* since the first.
C29_OneRecyclePerMeasurement == seen.recycles <= 1

\* C30: isOnline() never rejects; it resolves to true exactly when its probe
\* completed without error (acquired, statement answered, check completed,
\* no failed pool close), and to false when the acquisition, the statement,
\* the pressure check or the recycle has failed.
C30_IsOnlineNeverRejects ==
  \A c \in Callers :
    (call[c].op = "isOnline" /\ Done(c)) =>
      LET failed == \/ Outcomes(c, "connect") = <<"err", "err">>
                    \/ Settled(c, "stmt", "err")
                    \/ call[c].tooMany = "failed"
                    \/ Settled(c, "end", "err")
      IN /\ call[c].kind = "ok"
         /\ call[c].result \in {Value("true"), Value("false")}
         /\ call[c].result = Value("true") <=> call[c].hqKind = "ok"
         /\ failed => call[c].result = Value("false")
         /\ ~failed => (call[c].result = Value("true") /\ Settled(c, "stmt", "ok"))

C30_Witness ==
  \E c \in Callers :
    /\ call[c].op = "isOnline" /\ Done(c)
    /\ call[c].result = Value("false") /\ Settled(c, "end", "err")

====
